---- MODULE Spec2Model ----
(***************************************************************************)
(* Model of the Voltcraft energy-logger decoder (VoltcraftData::parse) and *)
(* of the statistics engine (VoltcraftStatistics).                         *)
(*                                                                         *)
(* Units.  The code keeps f64 values that it derives from integers by a    *)
(* fixed division; the model keeps the integers:                           *)
(*   voltage        in 0.1 V       (raw 16-bit value, code: raw / 10.0)    *)
(*   current        in 0.001 A     (raw 16-bit value, code: raw / 1000.0)  *)
(*   power_factor   in 0.01        (raw byte,         code: raw / 100.0)   *)
(*   power          = voltage * current * power_factor   (1e-9 kW)         *)
(*   apparent_power = voltage * current                  (1e-7 kVA)        *)
(* A timestamp is the number of minutes since 2000-01-01 00:00 local time  *)
(* (the code never produces a non-zero seconds field), counted along the   *)
(* time line.  The code works in chrono::Local, the zone of the host: the  *)
(* variable zone says whether that zone changes its UTC offset.            *)
(***************************************************************************)
EXTENDS Integers, Sequences, FiniteSets, TLC

VARIABLES
    layout,            \* how the input buffer was put together (the input)
    raw_data,          \* VoltcraftData.raw_data
    pc,                \* position in parse: "start", "loop", "done"
    offset,            \* parse: offset
    start_time,        \* parse: start_time
    minute_increment,  \* parse: minute_increment
    result,            \* parse: result
    ret,               \* how parse ended: "none" while running
    power_data,        \* VoltcraftStatistics.power_data
    overall,           \* what overall_stats returned, "none" before the call
    daily,             \* what daily_stats returned
    blackout,          \* what blackout_stats returned
    report,            \* what save_statistics wrote
    files,             \* main: the files that glob("data/*") yields
    file_index,        \* main: the file the loop is at
    main_pc,           \* main: "idle", "files", "parse", "stats", "aborted"
    failed,            \* main: the files reported on stderr, with the message
    zone               \* chrono::Local: the time zone of the host

decoderVars == <<layout, raw_data, pc, offset, start_time, minute_increment, result, ret>>
statsVars == <<power_data, overall, daily, blackout>>
mainVars == <<files, file_index, main_pc, failed>>
vars == <<layout, raw_data, pc, offset, start_time, minute_increment, result, ret,
          power_data, overall, daily, blackout, report, files, file_index, main_pc, failed,
          zone>>

(***************************************************************************)
(* Bounds of the model.                                                    *)
(***************************************************************************)
MaxChunks == 5
MaxCut == 6
MaxRawLen == 3
MaxEvents == 3

(***************************************************************************)
(* Bytes and the binary layout.                                            *)
(***************************************************************************)
MAGIC_NUMBER == <<224, 197, 234>>

END_OF_DATA == <<255, 255, 255, 255>>

\* raw_data[off .. off + n) exists: the slice does not panic
SliceOk(off, n) == off + n <= Len(raw_data)

\* raw_data[off .. off + n), zero-based like the code
Slice(off, n) == [i \in 1..n |-> raw_data[off + i]]

is_datablock(off) == Slice(off, 3) = MAGIC_NUMBER

is_endofdata(off) == Slice(off, 4) = END_OF_DATA

(***************************************************************************)
(* chrono: Local.ymd(y, m, d).and_hms(h, mi, 0), which panics on a date    *)
(* or time that does not exist.                                            *)
(***************************************************************************)
IsLeap(y) == (y % 4 = 0 /\ y % 100 # 0) \/ y % 400 = 0

DaysInMonth(y, m) ==
    IF m = 2 THEN (IF IsLeap(y) THEN 29 ELSE 28)
    ELSE IF m \in {4, 6, 9, 11} THEN 30 ELSE 31

ValidYmdHms(y, m, d, h, mi) ==
    /\ m \in 1..12
    /\ d >= 1 /\ d <= DaysInMonth(y, m)
    /\ h <= 23
    /\ mi <= 59

RECURSIVE DaysBeforeMonth(_, _)
DaysBeforeMonth(y, m) ==
    IF m <= 1 THEN 0 ELSE DaysBeforeMonth(y, m - 1) + DaysInMonth(y, m - 1)

\* days from 2000-01-01 to the first day of year 2000 + yy
DaysBeforeYear(yy) ==
    365 * yy + ((yy + 3) \div 4) - ((yy + 99) \div 100) + ((yy + 399) \div 400)

\* minutes from 2000-01-01 00:00 to the given local time
MinutesOf(yy, m, d, h, mi) ==
    ((DaysBeforeYear(yy) + DaysBeforeMonth(2000 + yy, m) + (d - 1)) * 24 + h) * 60 + mi

\* the five bytes at off are a time that exists
TimestampValid(off) ==
    ValidYmdHms(2000 + raw_data[off + 3], raw_data[off + 1], raw_data[off + 2],
                raw_data[off + 4], raw_data[off + 5])

decode_timestamp(off) ==
    MinutesOf(raw_data[off + 3], raw_data[off + 1], raw_data[off + 2],
              raw_data[off + 4], raw_data[off + 5])

(***************************************************************************)
(* decode_power: the five bytes of a measurement record.                   *)
(***************************************************************************)
RawVoltage_LittleEndian(off) == raw_data[off + 1] + 256 * raw_data[off + 2]

RawVoltage(off) == 256 * raw_data[off + 1] + raw_data[off + 2]

\* assert!(voltage > 150.0) and assert!(voltage < 250.0)
VoltageAssertOk(off) == RawVoltage(off) > 1500 /\ RawVoltage(off) < 2500

\* the tuple decode_power returns, from the three raw values
PowerValues(voltage, current, power_factor) ==
    [voltage |-> voltage,
     current |-> current,
     power_factor |-> power_factor,
     power |-> voltage * current * power_factor,
     apparent_power |-> voltage * current]

decode_power(off) ==
    PowerValues(RawVoltage(off),
                256 * raw_data[off + 3] + raw_data[off + 4],
                raw_data[off + 5])

PowerEvent(ts, pd) ==
    [timestamp |-> ts,
     voltage |-> pd.voltage,
     current |-> pd.current,
     power_factor |-> pd.power_factor,
     power |-> pd.power,
     apparent_power |-> pd.apparent_power]

(***************************************************************************)
(* The input buffers.  A buffer is a run of chunks (a block header with    *)
(* its timestamp, or a measurement record), then the end-of-data marker,   *)
(* with the last `cut` bytes missing; or a short run of arbitrary bytes.   *)
(***************************************************************************)
HdrA == MAGIC_NUMBER \o <<9, 11, 14, 18, 43>>      \* 2014-09-11 18:43

HdrB == MAGIC_NUMBER \o <<12, 31, 14, 23, 59>>     \* 2014-12-31 23:59

RecGood == <<8, 198, 1, 190, 87>>                  \* 224.6 V, 0.446 A, 0.87

RecLow == <<3, 232, 0, 100, 50>>                   \* 100.0 V, 0.100 A, 0.50

RecMagic == MAGIC_NUMBER \o <<1, 1>>               \* a record that starts like a header

ChunkSet == {HdrA, HdrB, RecGood, RecLow, RecMagic}

RawBytes == {224, 197, 234, 255}

Layouts == UNION {[1..n -> ChunkSet] : n \in 0..MaxChunks}

RawBuffers == UNION {[1..n -> RawBytes] : n \in 0..MaxRawLen}

RECURSIVE Encode(_)
Encode(cs) == IF cs = <<>> THEN <<>> ELSE Head(cs) \o Encode(Tail(cs))

Truncate(buf, cut) ==
    IF cut >= Len(buf) THEN <<>> ELSE SubSeq(buf, 1, Len(buf) - cut)

(***************************************************************************)
(* VoltcraftData::parse, one action per way through the check of the       *)
(* header and per iteration of the loop.                                   *)
(***************************************************************************)
ParseIdle ==
    /\ pc = "start"
    /\ offset = 0
    /\ start_time = 0
    /\ minute_increment = 0
    /\ result = <<>>
    /\ ret = "none"

DecoderInit ==
    /\ \/ \E cs \in Layouts, cut \in 0..MaxCut :
            /\ layout = [shape |-> "chunks", chunks |-> cs, cut |-> cut]
            /\ raw_data = Truncate(Encode(cs) \o END_OF_DATA, cut)
       \/ \E buf \in RawBuffers :
            /\ layout = [shape |-> "raw", chunks |-> <<>>, cut |-> 0]
            /\ raw_data = buf
    /\ ParseIdle

Finish(how) ==
    /\ pc' = "done"
    /\ ret' = how
    /\ UNCHANGED <<layout, raw_data, offset, start_time, minute_increment, result>>

\* minute_increment = 0 when a block header is met
MinuteAfterHeader_Kept(m) == m

MinuteAfterHeader(m) == 0

\* offset += 3 and offset += 5 around decode_timestamp
AfterHeader(off) == off + 3 + 5

AfterRecord_Six(off) == off + 6

\* offset += 5 after decode_power
AfterRecord(off) == off + 5

\* the check of the header before the loop
ParseCheckHeader ==
    /\ pc = "start"
    /\ IF ~SliceOk(offset, 3)
       THEN Finish("panic: index out of range")
       ELSE IF ~is_datablock(offset)
       THEN Finish("Err: Invalid data file")
       ELSE /\ pc' = "loop"
            /\ UNCHANGED <<layout, raw_data, offset, start_time, minute_increment,
                           result, ret>>
    /\ UNCHANGED <<statsVars, mainVars, report, zone>>

\* an iteration that finds a block header
ParseBlockHeader ==
    /\ pc = "loop"
    /\ SliceOk(offset, 3)
    /\ is_datablock(offset)
    /\ IF ~SliceOk(offset + 3, 5)
       THEN Finish("panic: index out of range")
       ELSE IF ~TimestampValid(offset + 3)
       THEN Finish("panic: invalid date")
       ELSE /\ start_time' = decode_timestamp(offset + 3)
            /\ minute_increment' = MinuteAfterHeader(minute_increment)
            /\ offset' = AfterHeader(offset)
            /\ UNCHANGED <<layout, raw_data, pc, result, ret>>
    /\ UNCHANGED <<statsVars, mainVars, report, zone>>

\* an iteration that finds the end-of-data marker
ParseEndOfData ==
    /\ pc = "loop"
    /\ SliceOk(offset, 3)
    /\ ~is_datablock(offset)
    /\ SliceOk(offset, 4)
    /\ is_endofdata(offset)
    /\ Finish("Ok")
    /\ UNCHANGED <<statsVars, mainVars, report, zone>>

\* an iteration that decodes a measurement record
ParseRecord ==
    /\ pc = "loop"
    /\ SliceOk(offset, 3)
    /\ ~is_datablock(offset)
    /\ SliceOk(offset, 4)
    /\ ~is_endofdata(offset)
    /\ IF ~VoltageAssertOk(offset)
       THEN Finish("panic: voltage assertion")
       ELSE IF ~SliceOk(offset, 5)
       THEN Finish("panic: index out of range")
       ELSE /\ result' = Append(result,
                    PowerEvent(start_time + minute_increment, decode_power(offset)))
            /\ minute_increment' = minute_increment + 1
            /\ offset' = AfterRecord(offset)
            /\ UNCHANGED <<layout, raw_data, pc, start_time, ret>>
    /\ UNCHANGED <<statsVars, mainVars, report, zone>>

\* an iteration whose slice for the header or the end marker leaves the buffer
ParseOutOfRange ==
    /\ pc = "loop"
    /\ IF SliceOk(offset, 3) THEN ~is_datablock(offset) /\ ~SliceOk(offset, 4) ELSE TRUE
    /\ Finish("panic: index out of range")
    /\ UNCHANGED <<statsVars, mainVars, report, zone>>

(***************************************************************************)
(* The statistics engine.  A result is [status |-> "none"] before the      *)
(* call, [status |-> "returned", value |-> v] after it, and                *)
(* [status |-> "panic"] when the call panicked.  A quotient of two f64     *)
(* values is kept as the fraction [num, den].                              *)
(***************************************************************************)
NoResult == [status |-> "none"]

Returned(v) == [status |-> "returned", value |-> v]

Panicked == [status |-> "panic"]

RECURSIVE GCD(_, _)
GCD(a, b) == IF b = 0 THEN a ELSE GCD(b, a % b)

\* the exact quotient n / d (d > 0), in lowest terms
Ratio(n, d) == [num |-> n \div GCD(n, d), den |-> d \div GCD(n, d)]

\* a / b for b > 0, cancelling before multiplying
RatDiv(a, b) ==
    LET g1 == GCD(a.num, b.num)
        g2 == GCD(b.den, a.den)
    IN  Ratio((a.num \div g1) * (b.den \div g2), (a.den \div g2) * (b.num \div g1))

\* a zone that keeps its UTC offset
FixedOffset == [change_at |-> 0, minutes |-> 0]

\* a zone that ends summer time on 2000-01-01: at 04:00 the clocks are set
\* back by an hour
FallBack == [change_at |-> 4 * 60, minutes |-> -60]

Zones == {FixedOffset, FallBack}

\* the local clock of the zone at the minute ts of the time line, in minutes
\* since 2000-01-01 00:00
LocalMinute(ts) == IF ts >= zone.change_at THEN ts + zone.minutes ELSE ts

\* chrono: timestamp.date(), as the number of the local day since 2000-01-01
DateOf(ts) == LocalMinute(ts) \div (24 * 60)

RECURSIVE SumSeq(_)
SumSeq(xs) == IF xs = <<>> THEN 0 ELSE Head(xs) + SumSeq(Tail(xs))

\* Iterator::max_by over the keys: the index it returns (a later element
\* replaces the best one unless the best one compares Greater)
RECURSIVE max_by_fold(_, _, _)
max_by_fold(keys, i, best) ==
    IF i > Len(keys) THEN best
    ELSE max_by_fold(keys, i + 1, IF keys[best] > keys[i] THEN best ELSE i)

max_by_first(keys) ==
    CHOOSE i \in 1..Len(keys) :
        /\ \A j \in 1..Len(keys) : keys[j] <= keys[i]
        /\ \A j \in 1..(i - 1) : keys[j] < keys[i]

max_by(keys) == max_by_fold(keys, 2, 1)

\* Iterator::min_by over the keys: the index it returns (a later element
\* replaces the best one only if the best one compares Greater)
RECURSIVE min_by_fold(_, _, _)
min_by_fold(keys, i, best) ==
    IF i > Len(keys) THEN best
    ELSE min_by_fold(keys, i + 1, IF keys[best] > keys[i] THEN i ELSE best)

min_by(keys) == min_by_fold(keys, 2, 1)

Powers(items) == [i \in 1..Len(items) |-> items[i].power]

ApparentPowers(items) == [i \in 1..Len(items) |-> items[i].apparent_power]

Voltages(items) == [i \in 1..Len(items) |-> items[i].voltage]

Timestamps(items) == [i \in 1..Len(items) |-> items[i].timestamp]

\* (end - start) + Duration::minutes(1)
TotalDuration_NoMinute(start, end) == end - start

TotalDuration(start, end) == (end - start) + 1

\* compute_stats on a non-empty vector (it panics on an empty one)
compute_stats(power_items) ==
    LET power_sum == SumSeq(Powers(power_items))
        apparent_power_sum == SumSeq(ApparentPowers(power_items))
        start == power_items[min_by(Timestamps(power_items))].timestamp
        end == power_items[max_by(Timestamps(power_items))].timestamp
    IN  [total_active_power |-> Ratio(power_sum, 60),
         avg_active_power |-> Ratio(power_sum, Len(power_items)),
         max_active_power |-> power_items[max_by(Powers(power_items))],
         total_apparent_power |-> Ratio(apparent_power_sum, 60),
         avg_apparent_power |-> Ratio(apparent_power_sum, Len(power_items)),
         max_apparent_power |-> power_items[max_by(ApparentPowers(power_items))],
         min_voltage |-> power_items[min_by(Voltages(power_items))],
         max_voltage |-> power_items[max_by(Voltages(power_items))],
         avg_voltage |-> Ratio(SumSeq(Voltages(power_items)), Len(power_items)),
         total_duration |-> TotalDuration(start, end)]

\* total_duration >= Duration::days(1), both in minutes
AtLeastOneDay_Strict(total_duration) == total_duration > 24 * 60

AtLeastOneDay(total_duration) == total_duration >= 24 * 60

\* overall_stats on a non-empty vector
overall_stats ==
    LET power_stats == compute_stats(power_data)
        start == power_data[1].timestamp
        end == power_data[Len(power_data)].timestamp
        total_duration == end - start
    IN  [start |-> start,
         end |-> end,
         stats |-> power_stats,
         avg_daily_power_consumption |->
            IF AtLeastOneDay(total_duration)
            THEN [some |-> TRUE,
                  value |-> RatDiv(power_stats.total_active_power,
                                   Ratio(total_duration * 60, 86400))]
            ELSE [some |-> FALSE]]

\* the test of compute_blackouts on the gap between two subsequent events
IsBlackoutGap_AtLeast(gap) == gap >= 1

IsBlackoutGap_EitherWay(gap) == gap > 1 \/ gap < -1

IsBlackoutGap(gap) == gap > 1

PowerBlackout_WholeGap(pe1, pe2) ==
    [timestamp |-> pe1.timestamp + 1, duration |-> pe2.timestamp - pe1.timestamp]

PowerBlackout(pe1, pe2) ==
    [timestamp |-> pe1.timestamp + 1, duration |-> (pe2.timestamp - pe1.timestamp) - 1]

\* compute_blackouts: the windows (power_items[i], power_items[i + 1]) from i on
RECURSIVE blackouts_from(_, _)
blackouts_from(power_items, i) ==
    IF i >= Len(power_items) THEN <<>>
    ELSE (IF IsBlackoutGap(power_items[i + 1].timestamp - power_items[i].timestamp)
          THEN <<PowerBlackout(power_items[i], power_items[i + 1])>>
          ELSE <<>>) \o blackouts_from(power_items, i + 1)

compute_blackouts(power_items) == blackouts_from(power_items, 1)

blackout_stats_CountAsTotal ==
    LET blackouts == compute_blackouts(power_data)
    IN  [blackout_count |-> Len(blackouts),
         total_blackout_duration |-> Len(blackouts),
         blackouts |-> blackouts]

blackout_stats ==
    LET blackouts == compute_blackouts(power_data)
    IN  [blackout_count |-> Len(blackouts),
         total_blackout_duration |->
            SumSeq([i \in 1..Len(blackouts) |-> blackouts[i].duration]),
         blackouts |-> blackouts]

\* a set of day numbers as the sorted vector
RECURSIVE SortedSeq(_)
SortedSeq(S) ==
    IF S = {} THEN <<>>
    ELSE LET m == CHOOSE x \in S : \A y \in S : x <= y
         IN  <<m>> \o SortedSeq(S \ {m})

distinct_days_DropLast ==
    LET days == SortedSeq({DateOf(power_data[i].timestamp) : i \in 1..Len(power_data)})
    IN  IF Len(days) > 1 THEN SubSeq(days, 1, Len(days) - 1) ELSE days

distinct_days ==
    SortedSeq({DateOf(power_data[i].timestamp) : i \in 1..Len(power_data)})

SameDay_OrEarlier(day, d) == day >= DateOf(d.timestamp)

\* the filter of filter_power_data
SameDay(day, d) == day = DateOf(d.timestamp)

filter_power_data(day) == SelectSeq(power_data, LAMBDA d : SameDay(day, d))

daily_stats ==
    LET days == distinct_days
    IN  [i \in 1..Len(days) |->
            [date |-> days[i], stats |-> compute_stats(filter_power_data(days[i]))]]

(***************************************************************************)
(* The statistics report.  A printed figure is the integer number of its   *)
(* last decimal place: "{:.2}" of kW is a number of 0.01 kW.               *)
(***************************************************************************)
\* i64 division and remainder: they truncate toward zero
TruncDiv(a, b) == IF a >= 0 THEN a \div b ELSE -((-a) \div b)

TruncRem(a, b) == a - b * TruncDiv(a, b)

\* format_duration, of a duration in minutes: the fields it prints
format_duration(duration) ==
    LET num_seconds == duration * 60
        minutes == TruncRem(TruncDiv(num_seconds, 60), 60)
        hours == TruncRem(TruncDiv(num_seconds, 3600), 24)
        days == TruncDiv(num_seconds, 86400)
    IN  IF days > 0 THEN [shape |-> "d:h:m", days |-> days, hours |-> hours, minutes |-> minutes]
        ELSE IF hours > 0 THEN [shape |-> "h:m", hours |-> hours, minutes |-> minutes]
        ELSE [shape |-> "m", minutes |-> minutes]

\* "{:.N}" of the fraction r >= 0 counted in units of which step make one
\* last place: the nearest number of last places, a tie going to the even one
Fmt(r, step) ==
    LET once == (r.num \div r.den) \div step
        twice == ((2 * r.num) \div r.den) \div step
        up == twice - once
        tie == /\ (2 * r.num) % r.den = 0
               /\ ((2 * r.num) \div r.den) % step = 0
               /\ twice % 2 = 1
    IN  IF tie /\ up % 2 = 1 THEN up - 1 ELSE up

\* "{:.2}" of a power (1e-9 kW) or an energy (1e-9 kWh): hundredths
FmtActive(r) == Fmt(r, 10000000)

\* "{:.2}" of an apparent power (1e-7 kVA) or energy: hundredths
FmtApparent(r) == Fmt(r, 100000)

\* "{:.1}" of a voltage (0.1 V): tenths
FmtVoltage(r) == Fmt(r, 1)

Whole(n) == [num |-> n, den |-> 1]

\* "{:.1}" of total_duration.num_seconds() * 100 / 86400: tenths of a percent
FmtPercentOfDay(total_duration) == Fmt(Ratio(total_duration * 25, 36), 1)

\* the "Average consumption" line: the kWh/day figure (the projections are
\* the same figure times 30 and 365)
ConsumptionLine(avg) ==
    IF avg.some THEN [some |-> TRUE, per_day |-> FmtActive(avg.value)]
    ELSE [some |-> FALSE]

\* the three lines of the "- ACTIVE POWER" section
OverallActive(stats) ==
    [total |-> FmtActive(stats.total_active_power),
     peak |-> FmtActive(Whole(stats.max_active_power.power)),
     peak_at |-> stats.max_active_power.timestamp,
     avg |-> FmtActive(stats.avg_active_power)]

\* the three lines of the "- APPARENT POWER" section: the peak is printed
\* from the field power of max_apparent_power, a number of kW
OverallApparent(stats) ==
    [total |-> FmtApparent(stats.total_apparent_power),
     peak |-> FmtActive(Whole(stats.max_apparent_power.power)),
     peak_at |-> stats.max_apparent_power.timestamp,
     avg |-> FmtApparent(stats.avg_apparent_power)]

\* the lines of the "- VOLTAGE" section, and the voltage line of a day
VoltageLines(stats) ==
    [min |-> FmtVoltage(Whole(stats.min_voltage.voltage)),
     min_at |-> stats.min_voltage.timestamp,
     max |-> FmtVoltage(Whole(stats.max_voltage.voltage)),
     max_at |-> stats.max_voltage.timestamp,
     avg |-> FmtVoltage(stats.avg_voltage)]

\* "Total active power: .. | Average: .. | Maximum: .. on .." of a day
DailyActiveLine(stats) ==
    [total |-> FmtActive(stats.total_active_power),
     avg |-> FmtActive(stats.avg_active_power),
     max |-> FmtActive(Whole(stats.max_active_power.power)),
     max_at |-> stats.max_active_power.timestamp]

\* "Total apparent power: .. | Average: .. | Maximum: .. on .." of a day: its
\* four arguments are those of the active power line
DailyApparentLine(stats) ==
    [total |-> FmtActive(stats.total_active_power),
     avg |-> FmtActive(stats.avg_active_power),
     max |-> FmtActive(Whole(stats.max_active_power.power)),
     max_at |-> stats.max_active_power.timestamp]

DailyLines(interval) ==
    [date |-> interval.date,
     duration |-> format_duration(interval.stats.total_duration),
     percent |-> FmtPercentOfDay(interval.stats.total_duration),
     active |-> DailyActiveLine(interval.stats),
     apparent |-> DailyApparentLine(interval.stats),
     voltage |-> VoltageLines(interval.stats)]

BlackoutLines(bs) ==
    [count |-> bs.blackout_count,
     total |-> format_duration(bs.total_blackout_duration),
     history |-> [i \in 1..Len(bs.blackouts) |->
                     [timestamp |-> bs.blackouts[i].timestamp,
                      duration |-> format_duration(bs.blackouts[i].duration)]]]

\* what save_statistics writes to the file
save_statistics(overall_info, daily_info, blackout_info) ==
    [overall |->
        [start |-> overall_info.start,
         end |-> overall_info.end,
         duration |-> format_duration(overall_info.end - overall_info.start),
         consumption |-> ConsumptionLine(overall_info.avg_daily_power_consumption),
         active |-> OverallActive(overall_info.stats),
         apparent |-> OverallApparent(overall_info.stats),
         voltage |-> VoltageLines(overall_info.stats)],
     daily |-> [k \in 1..Len(daily_info) |-> DailyLines(daily_info[k])],
     blackouts |-> BlackoutLines(blackout_info)]

(***************************************************************************)
(* The event vectors handed to the engine.                                 *)
(***************************************************************************)
EventTimes == {0, 1, 2, 1440, 1441}

EventValues ==
    {PowerValues(2246, 40, 50), PowerValues(2246, 40, 25), PowerValues(2300, 10, 50)}

EventSet == {PowerEvent(t, pd) : t \in EventTimes, pd \in EventValues}

EventVectors == UNION {[1..n -> EventSet] : n \in 0..MaxEvents}

StatsIdle ==
    /\ power_data = <<>>
    /\ overall = NoResult
    /\ daily = NoResult
    /\ blackout = NoResult

\* main has not started
MainIdle ==
    /\ files = <<>>
    /\ file_index = 1
    /\ main_pc = "idle"
    /\ failed = <<>>
    /\ report = NoResult

(***************************************************************************)
(* main: the files of data/, decoded one after the other into one vector.  *)
(***************************************************************************)
MaxFiles == 2

\* records of 224.6 V, 0.040 A, 0.50 and of 230.0 V, 0.010 A, 0.50
RecMain == <<8, 198, 0, 40, 50>>

RecOther == <<8, 252, 0, 10, 50>>

\* a file fs::read fails on
Unreadable == [readable |-> FALSE, bytes |-> <<>>]

ReadableFile(bytes) == [readable |-> TRUE, bytes |-> bytes]

BlockFile(cs) == ReadableFile(Encode(cs) \o END_OF_DATA)

\* the files data/ may hold: unreadable; one block of two minutes; a block
\* that starts at the same minute; a block months later; two blocks with the
\* same start time; a text file; a file cut inside its end marker; a record
\* of 100.0 V; a file of one byte
FileKinds ==
    {Unreadable,
     BlockFile(<<HdrA, RecMain, RecMain>>),
     BlockFile(<<HdrA, RecOther>>),
     BlockFile(<<HdrB, RecMain>>),
     BlockFile(<<HdrA, RecMain, HdrA, RecOther>>),
     ReadableFile(<<61, 61, 61, 61>>),
     ReadableFile(Truncate(Encode(<<HdrA, RecMain>>) \o END_OF_DATA, 2)),
     BlockFile(<<HdrA, RecLow>>),
     ReadableFile(<<224>>)}

FileVectors == UNION {[1..n -> FileKinds] : n \in 0..MaxFiles}

\* where sort_by puts e among the sorted elements: behind those that do not
\* compare Greater (the sort is stable)
InsertStable(sorted, e) ==
    LET k == Cardinality({i \in 1..Len(sorted) : sorted[i].timestamp <= e.timestamp})
    IN  SubSeq(sorted, 1, k) \o <<e>> \o SubSeq(sorted, k + 1, Len(sorted))

\* power_events.sort_by(|a, b| a.timestamp.cmp(&b.timestamp))
RECURSIVE sort_by_timestamp(_)
sort_by_timestamp(v) ==
    IF v = <<>> THEN <<>>
    ELSE InsertStable(sort_by_timestamp(SubSeq(v, 1, Len(v) - 1)), v[Len(v)])

NoPanic ==
    /\ overall.status # "panic"
    /\ daily.status # "panic"
    /\ blackout.status # "panic"

CallOverallStats ==
    /\ NoPanic
    /\ overall.status = "none"
    /\ overall' = IF power_data = <<>> THEN Panicked ELSE Returned(overall_stats)
    /\ UNCHANGED <<power_data, daily, blackout>>
    /\ UNCHANGED <<decoderVars, mainVars, report, zone>>

CallDailyStats_Sorting ==
    /\ NoPanic
    /\ daily.status = "none"
    /\ daily' = Returned(daily_stats)
    /\ power_data' = sort_by_timestamp(power_data)
    /\ UNCHANGED <<overall, blackout>>
    /\ UNCHANGED <<decoderVars, mainVars, report, zone>>

CallDailyStats ==
    /\ NoPanic
    /\ daily.status = "none"
    /\ daily' = Returned(daily_stats)
    /\ UNCHANGED <<power_data, overall, blackout>>
    /\ UNCHANGED <<decoderVars, mainVars, report, zone>>

CallBlackoutStats ==
    /\ NoPanic
    /\ blackout.status = "none"
    /\ blackout' = Returned(blackout_stats)
    /\ UNCHANGED <<power_data, overall, daily>>
    /\ UNCHANGED <<decoderVars, mainVars, report, zone>>

\* save_statistics on the three results; File::create may fail, and then
\* nothing is written
SaveStatistics ==
    /\ NoPanic
    /\ overall.status = "returned"
    /\ daily.status = "returned"
    /\ blackout.status = "returned"
    /\ report.status = "none"
    /\ \E created \in BOOLEAN :
          report' = IF created
                    THEN Returned(save_statistics(overall.value, daily.value, blackout.value))
                    ELSE [status |-> "io error"]
    /\ UNCHANGED <<statsVars, decoderVars, mainVars, zone>>

(***************************************************************************)
(* The decoder on every input buffer.                                      *)
(***************************************************************************)
\* the buffers carry times of days on which no zone changes its offset
Init == DecoderInit /\ StatsIdle /\ MainIdle /\ zone = FixedOffset

Next ==
    \/ ParseCheckHeader
    \/ ParseBlockHeader
    \/ ParseEndOfData
    \/ ParseRecord
    \/ ParseOutOfRange

Spec == Init /\ [][Next]_vars

\* parse runs on: an iteration that can be taken is taken
FairSpec == Spec /\ WF_vars(Next)

(***************************************************************************)
(* The statistics engine on every event vector.                            *)
(***************************************************************************)
StatsInit ==
    /\ layout = [shape |-> "raw", chunks |-> <<>>, cut |-> 0]
    /\ raw_data = <<>>
    /\ ParseIdle
    /\ power_data \in EventVectors
    /\ overall = NoResult
    /\ daily = NoResult
    /\ blackout = NoResult
    /\ MainIdle
    /\ zone \in Zones

StatsNext ==
    \/ CallOverallStats
    \/ CallDailyStats
    \/ CallBlackoutStats
    \/ SaveStatistics

StatsSpec == StatsInit /\ [][StatsNext]_vars

(***************************************************************************)
(* main on every vector of files.                                          *)
(***************************************************************************)
MainInit ==
    /\ layout = [shape |-> "file", chunks |-> <<>>, cut |-> 0]
    /\ raw_data = <<>>
    /\ pc = "idle"
    /\ offset = 0
    /\ start_time = 0
    /\ minute_increment = 0
    /\ result = <<>>
    /\ ret = "none"
    /\ StatsIdle
    /\ files \in FileVectors
    /\ file_index = 1
    /\ main_pc = "files"
    /\ failed = <<>>
    /\ report = NoResult
    /\ zone = FixedOffset

Failure(message) == [file |-> file_index, message |-> message]

\* the next file of the loop: from_file, and the call of parse on what it read
MainOpenFile ==
    /\ main_pc = "files"
    /\ file_index <= Len(files)
    /\ IF files[file_index].readable
       THEN /\ raw_data' = files[file_index].bytes
            /\ pc' = "start"
            /\ offset' = 0
            /\ start_time' = 0
            /\ minute_increment' = 0
            /\ result' = <<>>
            /\ ret' = "none"
            /\ main_pc' = "parse"
            /\ UNCHANGED <<file_index, failed>>
       ELSE /\ failed' = Append(failed, Failure("Failed to open file."))
            /\ file_index' = file_index + 1
            /\ UNCHANGED <<raw_data, pc, offset, start_time, minute_increment,
                           result, ret, main_pc>>
    /\ UNCHANGED <<layout, files, statsVars, report, zone>>

\* parse returned Ok(pev): power_events.append(&mut pev)
MainParseOk ==
    /\ main_pc = "parse"
    /\ pc = "done"
    /\ ret = "Ok"
    /\ power_data' = power_data \o result
    /\ file_index' = file_index + 1
    /\ main_pc' = "files"
    /\ UNCHANGED <<decoderVars, files, failed, overall, daily, blackout, report, zone>>

\* parse returned Err: the file is reported and the loop goes on
MainParseErr ==
    /\ main_pc = "parse"
    /\ pc = "done"
    /\ ret = "Err: Invalid data file"
    /\ failed' = Append(failed, Failure("Invalid data, probably not a Voltcraft file."))
    /\ file_index' = file_index + 1
    /\ main_pc' = "files"
    /\ UNCHANGED <<decoderVars, files, statsVars, report, zone>>

\* parse panicked: the panic unwinds main, the process ends
MainParsePanic ==
    /\ main_pc = "parse"
    /\ pc = "done"
    /\ ret \in {"panic: index out of range", "panic: invalid date",
                "panic: voltage assertion"}
    /\ main_pc' = "aborted"
    /\ UNCHANGED <<decoderVars, files, file_index, failed, statsVars, report, zone>>

\* after the loop: the sort, and the statistics engine borrows the vector
MainSort ==
    /\ main_pc = "files"
    /\ file_index > Len(files)
    /\ power_data' = sort_by_timestamp(power_data)
    /\ main_pc' = "stats"
    /\ UNCHANGED <<decoderVars, files, file_index, failed, overall, daily, blackout, report, zone>>

\* the arguments of save_statistics, evaluated from left to right
MainOverallStats == main_pc = "stats" /\ CallOverallStats

MainDailyStats == main_pc = "stats" /\ overall.status = "returned" /\ CallDailyStats

MainBlackoutStats == main_pc = "stats" /\ daily.status = "returned" /\ CallBlackoutStats

MainSaveStatistics == main_pc = "stats" /\ SaveStatistics

MainNext ==
    \/ MainOpenFile
    \/ ParseCheckHeader
    \/ ParseBlockHeader
    \/ ParseEndOfData
    \/ ParseRecord
    \/ ParseOutOfRange
    \/ MainParseOk
    \/ MainParseErr
    \/ MainParsePanic
    \/ MainSort
    \/ MainOverallStats
    \/ MainDailyStats
    \/ MainBlackoutStats
    \/ MainSaveStatistics

MainSpec == MainInit /\ [][MainNext]_vars

(***************************************************************************)
(* Properties of the decoder.                                              *)
(***************************************************************************)
Done == pc = "done"

HasMagicHeader == Len(raw_data) >= 3 /\ SubSeq(raw_data, 1, 3) = MAGIC_NUMBER

\* number of 5-byte records between the first timestamp and the end marker
RecordCount == (Len(raw_data) - 12) \div 5

\* the record slot at off starts neither like a block header nor like the end marker
PlainRecordAt(off) == ~is_datablock(off) /\ ~is_endofdata(off)

\* header, timestamp that exists, N plain records, end-of-data marker
ValidSingleBlock ==
    /\ Len(raw_data) >= 12
    /\ (Len(raw_data) - 12) % 5 = 0
    /\ HasMagicHeader
    /\ TimestampValid(3)
    /\ SubSeq(raw_data, Len(raw_data) - 3, Len(raw_data)) = END_OF_DATA
    /\ \A i \in 0..(RecordCount - 1) : PlainRecordAt(8 + 5 * i)

SingleBlockDecoded ==
    /\ ret = "Ok"
    /\ Len(result) = RecordCount
    /\ \A i \in 1..RecordCount : result[i].timestamp = decode_timestamp(3) + (i - 1)

\* C1: for every valid single-block buffer with N records parse returns Ok
\* with exactly N events, the i-th at the block's start time plus i minutes
\* (N = 0: no event and no error).
C1_SingleBlock == (Done /\ ValidSingleBlock) => SingleBlockDecoded

\* C1 with every record's voltage inside (150 V, 250 V): what the code does
\* when the assertions of decode_power stay silent.
C1_SingleBlockInRange ==
    (Done /\ ValidSingleBlock
          /\ \A i \in 0..(RecordCount - 1) : VoltageAssertOk(8 + 5 * i))
        => SingleBlockDecoded

\* C2: for every buffer, of any length, whose first three bytes are not the
\* magic header, parse returns the InvalidFormat error and no event.
C2_BadHeaderIsInvalidFormat ==
    (Done /\ ~HasMagicHeader) => (ret = "Err: Invalid data file" /\ result = <<>>)

IsHeaderChunk(c) == Len(c) = 8

\* a buffer of headers with existing timestamps and in-range records whose
\* end lacks at least one byte of the end-of-data marker
TruncatedBuffer ==
    /\ layout.shape = "chunks"
    /\ layout.chunks # <<>>
    /\ IsHeaderChunk(layout.chunks[1])
    /\ \A i \in 1..Len(layout.chunks) : layout.chunks[i] \in {HdrA, HdrB, RecGood}
    /\ layout.cut >= 1

\* C3: for every buffer that starts with the magic header and ends before an
\* end-of-data marker is reached, parse fails with the Truncated error.
C3_TruncatedIsError == (Done /\ TruncatedBuffer) => ret = "Err: Truncated"

\* What the code does on such a buffer: the bounds check of the slice panics.
C3_TruncatedPanics == (Done /\ TruncatedBuffer) => ret = "panic: index out of range"

\* the start time a header chunk carries
HeaderTime(c) == MinutesOf(c[6], c[4], c[5], c[7], c[8])

\* the timestamps the layout stands for: a header restarts the clock
RECURSIVE ExpectedTimes(_, _, _)
ExpectedTimes(cs, start, k) ==
    IF cs = <<>> THEN <<>>
    ELSE IF IsHeaderChunk(Head(cs))
    THEN ExpectedTimes(Tail(cs), HeaderTime(Head(cs)), 0)
    ELSE <<start + k>> \o ExpectedTimes(Tail(cs), start, k + 1)

IsPrefix(a, b) == Len(a) <= Len(b) /\ a = SubSeq(b, 1, Len(a))

\* blocks whose records cannot be taken for a header or an end marker
BlocksLayout ==
    /\ layout.shape = "chunks"
    /\ layout.chunks # <<>>
    /\ IsHeaderChunk(layout.chunks[1])
    /\ \A i \in 1..Len(layout.chunks) : layout.chunks[i] # RecMagic

\* C4: in a buffer of several blocks every header replaces the start time by
\* its own timestamp and restarts the minute counter: the k-th record after a
\* header (k = 0, 1, ...) gets that header's time plus k minutes, whatever
\* the earlier blocks held.
C4_HeaderRestartsClock ==
    BlocksLayout =>
        /\ IsPrefix(Timestamps(result), ExpectedTimes(layout.chunks, 0, 0))
        /\ ret = "Ok" => Timestamps(result) = ExpectedTimes(layout.chunks, 0, 0)

\* two blocks with different start times, one record in the first and two in
\* the second, decoded to the end
C4_Witness ==
    /\ ret = "Ok"
    /\ BlocksLayout
    /\ \E i \in 3..Len(layout.chunks) :
          /\ IsHeaderChunk(layout.chunks[i])
          /\ ~IsHeaderChunk(layout.chunks[i - 1])
          /\ HeaderTime(layout.chunks[i]) # HeaderTime(layout.chunks[1])
          /\ i + 2 <= Len(layout.chunks)
          /\ ~IsHeaderChunk(layout.chunks[i + 1])
          /\ ~IsHeaderChunk(layout.chunks[i + 2])
    /\ Len(result) >= 3

(***************************************************************************)
(* Properties of the statistics engine.                                    *)
(***************************************************************************)
\* the gap between event i and event i + 1 of power_data, in minutes
Gap(i) == power_data[i + 1].timestamp - power_data[i].timestamp

Pairs == 1..(Len(power_data) - 1)

\* sorted ascending by timestamp
Sorted == \A i \in Pairs : Gap(i) >= 0

\* sorted ascending with at most one event per timestamp
SortedDedup == \A i \in Pairs : Gap(i) > 0

\* C5: on a sorted, deduplicated vector blackout_stats reports no blackout
\* (count 0, empty list) if and only if every two consecutive events are
\* exactly one minute apart.
C5_NoBlackoutIffOneMinuteGaps ==
    (blackout.status = "returned" /\ SortedDedup) =>
        ((blackout.value.blackout_count = 0 /\ blackout.value.blackouts = <<>>)
            <=> \A i \in Pairs : Gap(i) = 1)

\* three events one minute apart, and no blackout reported
C5_Witness ==
    /\ blackout.status = "returned"
    /\ SortedDedup
    /\ Len(power_data) >= 3
    /\ \A i \in Pairs : Gap(i) = 1
    /\ blackout.value.blackout_count = 0

\* the pairs more than one minute apart
GapPairs == {i \in Pairs : Gap(i) > 1}

\* C6: blackout_stats lists one Blackout per consecutive pair whose gap
\* exceeds one minute and none for another pair, in the order of the pairs,
\* each starting one minute after the first event of the pair and lasting
\* the gap less one minute.
C6_OneBlackoutPerGap ==
    blackout.status = "returned" =>
        /\ Len(blackout.value.blackouts) = Cardinality(GapPairs)
        /\ \A i \in GapPairs :
              blackout.value.blackouts[Cardinality({j \in GapPairs : j <= i})]
                = [timestamp |-> power_data[i].timestamp + 1, duration |-> Gap(i) - 1]

\* two blackouts of different lengths
C6_Witness ==
    /\ blackout.status = "returned"
    /\ Len(blackout.value.blackouts) = 2
    /\ blackout.value.blackouts[1].duration # blackout.value.blackouts[2].duration

\* last timestamp minus first timestamp, in minutes
Span == power_data[Len(power_data)].timestamp - power_data[1].timestamp

\* C7: on a non-empty sorted vector avg_daily_power_consumption is absent
\* when the span is under one day and present otherwise (one day exactly
\* included); when present, times the span in days it is the total active
\* energy.
C7_AvgDailyConsumption ==
    (overall.status = "returned" /\ Sorted) =>
        LET avg == overall.value.avg_daily_power_consumption
        IN  /\ avg.some <=> Span >= 1440
            /\ avg.some =>
                  RatDiv(avg.value, Ratio(1440, Span))
                    = Ratio(SumSeq(Powers(power_data)), 60)

\* a span of one day exactly, with the average present
C7_Witness ==
    /\ overall.status = "returned"
    /\ Sorted
    /\ Span = 1440
    /\ overall.value.avg_daily_power_consumption.some

\* how often e occurs in xs
Count(xs, e) == Cardinality({i \in 1..Len(xs) : xs[i] = e})

\* the events daily_stats computed the k-th entry over
DailyEvents(k) == filter_power_data(daily.value[k].date)

\* C8: the per-date event vectors of daily_stats partition the input: every
\* event is in the vector of its date and in no other, as often as in the
\* input, so the lengths add up to the length of the input.
C8_DailyPartition ==
    daily.status = "returned" =>
        LET days == 1..Len(daily.value)
        IN  /\ \A i \in 1..Len(power_data) :
                  \E k \in days :
                      /\ daily.value[k].date = DateOf(power_data[i].timestamp)
                      /\ Count(DailyEvents(k), power_data[i]) = Count(power_data, power_data[i])
                      /\ \A m \in days \ {k} : Count(DailyEvents(m), power_data[i]) = 0
            /\ \A k \in days : \A j \in 1..Len(DailyEvents(k)) :
                  Count(power_data, DailyEvents(k)[j]) > 0
            /\ SumSeq([k \in days |-> Len(DailyEvents(k))]) = Len(power_data)

\* two dates, one of them with two events
C8_Witness ==
    /\ daily.status = "returned"
    /\ SortedDedup
    /\ Len(daily.value) >= 2
    /\ \E k \in 1..Len(daily.value) : Len(DailyEvents(k)) >= 2

\* the last index that holds the greatest key
LastMax(keys) ==
    CHOOSE i \in 1..Len(keys) :
        /\ \A j \in 1..Len(keys) : keys[j] <= keys[i]
        /\ \A j \in (i + 1)..Len(keys) : keys[j] < keys[i]

\* the last index that holds the least key
LastMin(keys) ==
    CHOOSE i \in 1..Len(keys) :
        /\ \A j \in 1..Len(keys) : keys[j] >= keys[i]
        /\ \A j \in (i + 1)..Len(keys) : keys[j] > keys[i]

\* C9: when several events tie for the greatest active power compute_stats
\* returns the last of them as max_active_power; likewise for
\* max_apparent_power and max_voltage.
C9_MaxIsLastAmongTies ==
    overall.status = "returned" =>
        /\ overall.value.stats.max_active_power
             = power_data[LastMax(Powers(power_data))]
        /\ overall.value.stats.max_apparent_power
             = power_data[LastMax(ApparentPowers(power_data))]
        /\ overall.value.stats.max_voltage
             = power_data[LastMax(Voltages(power_data))]

\* two different events share the greatest power, apparent power and voltage
C9_Witness ==
    /\ overall.status = "returned"
    /\ \E i, j \in 1..Len(power_data) :
          /\ i < j
          /\ power_data[i] # power_data[j]
          /\ power_data[i].power = power_data[j].power
          /\ power_data[i].apparent_power = power_data[j].apparent_power
          /\ power_data[i].voltage = power_data[j].voltage
          /\ \A k \in 1..Len(power_data) :
                /\ power_data[k].power <= power_data[i].power
                /\ power_data[k].apparent_power <= power_data[i].apparent_power
                /\ power_data[k].voltage <= power_data[i].voltage

\* C10: when several events share the lowest voltage compute_stats returns
\* the last of them as min_voltage, as for the maxima.
C10_MinVoltageIsLastAmongTies ==
    overall.status = "returned" =>
        overall.value.stats.min_voltage = power_data[LastMin(Voltages(power_data))]

\* What the code does: min_by keeps the first of the events that tie.
C10_MinVoltageIsFirstAmongTies ==
    overall.status = "returned" =>
        \E i \in 1..Len(power_data) :
            /\ overall.value.stats.min_voltage = power_data[i]
            /\ \A j \in 1..Len(power_data) : power_data[j].voltage >= power_data[i].voltage
            /\ \A j \in 1..(i - 1) : power_data[j].voltage > power_data[i].voltage

\* C11: a statistics request over no event (overall_stats, and with it
\* compute_stats, on an empty vector) fails with the EmptyInput error, handed
\* to the caller; it neither returns a value nor aborts.
C11_EmptyInputIsError ==
    (power_data = <<>> /\ overall.status # "none")
        => overall = [status |-> "error", error |-> "EmptyInput"]

\* What the code does on an empty vector: max_by(..).unwrap() panics.
C11_EmptyInputPanics ==
    (power_data = <<>> /\ overall.status # "none") => overall = Panicked

\* C12: a record whose voltage is not inside (150 V, 250 V) does not abort
\* the decode: parse returns the event of that record and of every later one.
C12_OutOfRangeVoltageDecoded ==
    (Done /\ ValidSingleBlock
          /\ \E i \in 0..(RecordCount - 1) : ~VoltageAssertOk(8 + 5 * i))
        => /\ ret = "Ok"
           /\ Len(result) = RecordCount
           /\ \A i \in 1..RecordCount : result[i].voltage = RawVoltage(8 + 5 * (i - 1))

\* C13: on a non-empty sorted vector total_duration is the last timestamp
\* less the first plus one minute; one minute for a single event.
C13_TotalDuration ==
    (overall.status = "returned" /\ Sorted) =>
        /\ overall.value.stats.total_duration = Span + 1
        /\ Len(power_data) = 1 => overall.value.stats.total_duration = 1

\* several events that span more than a minute
C13_Witness ==
    /\ overall.status = "returned"
    /\ Sorted
    /\ Len(power_data) >= 2
    /\ Span >= 2

\* the buffer of the unit tests
TESTDATA ==
    <<224, 197, 234, 9, 11, 14, 18, 43, 8, 198, 1, 190, 87, 255, 255, 255, 255>>

\* the record chunks of a layout, in their order
RecordChunks(cs) == SelectSeq(cs, LAMBDA c : ~IsHeaderChunk(c))

\* C14: the five timestamp bytes are month, day, year - 2000, hour, minute;
\* a record gives voltage = 256 * b0 + b1 (0.1 V), current = 256 * b2 + b3
\* (0.001 A), power factor = b4 (0.01); the buffer of the unit tests decodes
\* to one event at 2014-09-11 18:43 (minute 7729603 since 2000-01-01 00:00)
\* with 224.6 V, 0.446 A and 0.87.
C14_FieldDecoding ==
    /\ (Done /\ raw_data = TESTDATA) =>
          /\ ret = "Ok"
          /\ result = <<[timestamp |-> 7729603, voltage |-> 2246, current |-> 446,
                         power_factor |-> 87, power |-> 2246 * 446 * 87,
                         apparent_power |-> 2246 * 446]>>
    /\ BlocksLayout =>
          \A i \in 1..Len(result) :
              LET c == RecordChunks(layout.chunks)[i]
              IN  /\ result[i].voltage = 256 * c[1] + c[2]
                  /\ result[i].current = 256 * c[3] + c[4]
                  /\ result[i].power_factor = c[5]
    /\ (ValidSingleBlock /\ ret = "Ok") =>
          \A i \in 1..Len(result) :
              result[i].timestamp
                = MinutesOf(raw_data[6], raw_data[4], raw_data[5], raw_data[7], raw_data[8])
                    + (i - 1)

\* the buffer of the unit tests, decoded to the end
C14_Witness == Done /\ raw_data = TESTDATA /\ ret = "Ok" /\ Len(result) = 1

\* C17: every blackout that blackout_stats returns lasts longer than nothing,
\* whatever the event vector: sorted or not, with repeated timestamps or not.
C17_BlackoutDurationPositive ==
    blackout.status = "returned" =>
        \A k \in 1..Len(blackout.value.blackouts) :
            blackout.value.blackouts[k].duration > 0

\* a vector out of order with a blackout in it
C17_Witness ==
    /\ blackout.status = "returned"
    /\ ~Sorted
    /\ Len(blackout.value.blackouts) >= 1

\* the events of one calendar date, in input order
EventsOn(date) == SelectSeq(power_data, LAMBDA e : DateOf(e.timestamp) = date)

\* C18: daily_stats returns one entry for each calendar date that has an
\* event and for no other, by strictly ascending date, and the statistics of
\* an entry are compute_stats over the events of that date alone.
C18_DailyStatsPerDate ==
    daily.status = "returned" =>
        LET n == Len(daily.value)
        IN  /\ {daily.value[k].date : k \in 1..n}
                 = {DateOf(power_data[i].timestamp) : i \in 1..Len(power_data)}
            /\ \A k \in 1..(n - 1) : daily.value[k].date < daily.value[k + 1].date
            /\ \A k \in 1..n :
                  daily.value[k].stats = compute_stats(EventsOn(daily.value[k].date))

\* two dates, the later one first in the input
C18_Witness ==
    /\ daily.status = "returned"
    /\ Len(daily.value) = 2
    /\ Len(power_data) >= 3
    /\ DateOf(power_data[1].timestamp) > DateOf(power_data[2].timestamp)

\* what an apparent power line of a day has to show
ApparentFigures(stats) ==
    [total |-> FmtApparent(stats.total_apparent_power),
     avg |-> FmtApparent(stats.avg_apparent_power),
     max |-> FmtApparent(Whole(stats.max_apparent_power.apparent_power)),
     max_at |-> stats.max_apparent_power.timestamp]

\* C19: the report prints apparent power in its apparent power sections: the
\* overall peak is the apparent_power of the max_apparent_power event, and the
\* apparent power line of each day prints the day's total_apparent_power,
\* avg_apparent_power and the apparent_power and timestamp of its
\* max_apparent_power event.
C19_ApparentSectionsShowApparent ==
    report.status = "returned" =>
        /\ report.value.overall.apparent.peak
             = FmtApparent(Whole(overall.value.stats.max_apparent_power.apparent_power))
        /\ \A k \in 1..Len(daily.value) :
              report.value.daily[k].apparent = ApparentFigures(daily.value[k].stats)

\* What the code prints there: the peak's active power, and for each day the
\* figures of the active power line a second time.
C19_ApparentSectionsShowActive ==
    report.status = "returned" =>
        /\ report.value.overall.apparent.peak
             = FmtActive(Whole(overall.value.stats.max_apparent_power.power))
        /\ \A k \in 1..Len(daily.value) :
              report.value.daily[k].apparent = report.value.daily[k].active

\* the files the loop is through with
Processed == 1..(file_index - 1)

BadHeaderFile(f) ==
    f.readable /\ Len(f.bytes) >= 3 /\ SubSeq(f.bytes, 1, 3) # MAGIC_NUMBER

\* C15: a file that fails to decode, for whatever cause, is skipped: it is
\* reported as failed, and the batch goes on to the other files and is never
\* aborted.
C15_DecodeFailureIsSkipped ==
    /\ main_pc # "aborted"
    /\ (main_pc = "parse" /\ pc = "done" /\ ret # "Ok") => ret = "Err: Invalid data file"

\* What main skips: a file it cannot read and a file without the magic
\* number, each reported once.
C15_UnreadableAndBadHeaderSkipped ==
    main_pc \in {"files", "stats"} =>
        \A i \in Processed :
            /\ ~files[i].readable =>
                  \E k \in 1..Len(failed) :
                      failed[k] = [file |-> i, message |-> "Failed to open file."]
            /\ BadHeaderFile(files[i]) =>
                  \E k \in 1..Len(failed) :
                      failed[k] = [file |-> i,
                                   message |-> "Invalid data, probably not a Voltcraft file."]

\* C16: the vector main hands to the statistics engine is sorted by ascending
\* timestamp and holds no timestamp twice.
C16_StatsInputSortedUnique == main_pc = "stats" => SortedDedup

\* What main hands over is sorted; timestamps may repeat.
C16_StatsInputSorted == main_pc = "stats" => Sorted

\* C20: the statistics operations only read: no call changes the vector of
\* events, and what a call returns is decided by the vector alone, whichever
\* calls came before it.
C20_ReadOnlyIndependent ==
    [][/\ power_data' = power_data
       /\ overall' # overall =>
             overall' = IF power_data = <<>> THEN Panicked ELSE Returned(overall_stats)
       /\ daily' # daily => daily' = Returned(daily_stats)
       /\ blackout' # blackout => blackout' = Returned(blackout_stats)]_vars

\* the three operations have returned on an unsorted vector
C20_Witness ==
    /\ overall.status = "returned"
    /\ daily.status = "returned"
    /\ blackout.status = "returned"
    /\ Len(power_data) >= 2
    /\ ~Sorted

\* C21: on a non-empty vector that is sorted and holds no timestamp twice,
\* the overall total_duration is one minute for each event plus
\* total_blackout_duration: recorded and blackout minutes make up the
\* interval.
C21_DurationConservation ==
    (overall.status = "returned" /\ blackout.status = "returned" /\ SortedDedup) =>
        overall.value.stats.total_duration
            = Len(power_data) + blackout.value.total_blackout_duration

\* three events, two of them a minute apart, and a blackout of hours
C21_Witness ==
    /\ overall.status = "returned"
    /\ blackout.status = "returned"
    /\ SortedDedup
    /\ Len(power_data) = 3
    /\ \E i \in Pairs : Gap(i) = 1
    /\ blackout.value.blackout_count = 1
    /\ blackout.value.total_blackout_duration > 1

\* the block headers the loop meets from byte off up to byte target
RECURSIVE HeadersFrom(_, _)
HeadersFrom(off, target) ==
    IF off >= target THEN 0
    ELSE IF is_datablock(off) THEN 1 + HeadersFrom(off + 8, target)
    ELSE HeadersFrom(off + 5, target)

\* C22: parse stops on every buffer (with events, with an error or with a
\* panic); an iteration that does not stop moves the offset forward by 8 bytes
\* (header and timestamp, no event) or by 5 bytes (one record, one event); so
\* the offset is always 8 * (headers met) + 5 * (events decoded), and on Ok
\* the end marker is at that offset.
C22_DecodeLoopProgress ==
    /\ <>Done
    /\ [][pc = "loop" /\ pc' = "loop" =>
             \/ offset' = offset + 8 /\ result' = result
             \/ offset' = offset + 5 /\ Len(result') = Len(result) + 1]_vars
    /\ [](offset = 8 * HeadersFrom(0, offset) + 5 * Len(result))
    /\ [](ret = "Ok" => is_endofdata(offset))

\* a buffer of two blocks decoded to its end marker
C22_Witness ==
    /\ Done
    /\ ret = "Ok"
    /\ HeadersFrom(0, offset) >= 2
    /\ Len(result) >= 2

\* C23: on a vector that is sorted and holds no timestamp twice, the
\* total_duration of every entry of daily_stats is at least a minute, at most
\* 24 hours and at least a minute for each event of the date, so the
\* percentage of recorded activity the report prints for the day is above 0
\* and at most 100.0.
C23_DailyCoverageWithinDay ==
    (daily.status = "returned" /\ SortedDedup) =>
        \A k \in 1..Len(daily.value) :
            LET total_duration == daily.value[k].stats.total_duration
            IN  /\ total_duration >= 1
                /\ total_duration <= 24 * 60
                /\ total_duration >= Len(EventsOn(daily.value[k].date))
                /\ report.status = "returned" =>
                      /\ report.value.daily[k].percent > 0
                      /\ report.value.daily[k].percent <= 1000

\* In a zone that keeps its offset a day has 24 hours and the bounds hold.
C23_DailyCoverageFixedOffset == zone = FixedOffset => C23_DailyCoverageWithinDay

\* In every zone a day has total_duration of at least a minute for each of
\* its events.
C23_DailyCoverageAtLeastEvents ==
    (daily.status = "returned" /\ SortedDedup) =>
        \A k \in 1..Len(daily.value) :
            /\ daily.value[k].stats.total_duration >= 1
            /\ daily.value[k].stats.total_duration >= Len(EventsOn(daily.value[k].date))

====
